---------------------------- MODULE Spec2Model ----------------------------
(***************************************************************************)
(* Model of the restaurant chatbot: the composite ranker                   *)
(* (src/lib/session-utils.ts, imported as '@/lib/scoring'), the session    *)
(* context resolver (actions/session-context.ts), the orchestrator         *)
(* (actions/simple-orchestrator.ts) and the useChat hook (hooks/useChat.ts)*)
(*                                                                         *)
(* Numbers: ratings are in tenths of a star (45 = 4.5), scores in          *)
(* hundredths (1215 = 12.15), confidences in hundredths (70 = 0.7).        *)
(***************************************************************************)
EXTENDS Integers, Sequences, FiniteSets, TLC

VARIABLES
    \* ---- ranker harness -------------------------------------------------
    places,      \* the Place[] argument handed to the ranker
    rankFn,      \* which ranker function has run: "none" | "top5" | "withScores"
    rankOut,     \* its return value
    \* ---- scoring harness ------------------------------------------------
    cmpA, cmpB,  \* two Place arguments
    cmpScores,   \* <<>> before scoring, <<scoreRestaurant(cmpA), scoreRestaurant(cmpB)>> after
    cmpText,     \* what compareRestaurants(cmpA, cmpB) returned
    \* ---- analyzeSessionContext (one call) -------------------------------
    ctxPc,       \* "idle" | "start" | "awaitStructured" | "awaitFallback" | "done"
    ctxMessage,  \* the currentMessage argument
    ctxLog,      \* chatState.messages of the chatState argument
    ctxCalls,    \* number of generateContent calls made by this call
    ctxPath,     \* which return statement produced the result
    ctxResult,   \* the value the promise resolves to
    \* ---- useChat + orchestrate ------------------------------------------
    chatState,   \* the hook's React state (ChatState)
    rendered,    \* the chatState captured by the sendMessage closure of the last render
    sent,        \* number of sendMessage calls accepted so far
    calls,       \* accepted sendMessage calls whose orchestrate promise is pending:
                 \* the arguments of orchestrate, and the log and the
                 \* conversation the call found
    userSelected, \* history: the selectedRestaurant of chatState was set by selectRestaurant
    cleared,     \* number of clearChat calls made so far
    clearing,    \* clearChat calls awaiting clearAllCache
    orchPc,      \* position of the running orchestrate call ("returned": from the
                 \* end of the try block, "caught": from its catch block)
    orchArg,     \* its chatState argument (the server's copy)
    orchCtx,     \* its contextAnalysis and processedMessage
    orchIntent,  \* its classified intent
    orchReply,   \* the ChatMessage it returns
    \* ---- classifyUserIntent (one call) ----------------------------------
    clsPc,       \* "idle" | "start" | "await" | "done"
    clsOut,      \* the outcome of its generateContent call and JSON.parse
    clsResult,   \* the value the promise resolves to
    \* ---- parallel external calls joined (one join) ----------------------
    joinFn,      \* "none", or the function that joined the calls
    joinIn,      \* how each of the parallel calls settled, in array order
    joinOut,     \* what the joining function returned
    \* ---- resolveLocationCoordinates (one call) --------------------------
    locPc,       \* "idle" | "start" | "awaitGoogle" | "awaitLLM" | "returned" | "thrown"
    locGoogle,   \* how geocodeWithGoogleAPI settled, once it was called
    locLLM,      \* how geocodeWithLLM's generateContent call settled, once called
    locOut       \* the value the promise resolves to

rankVars  == <<places, rankFn, rankOut>>
scoreVars == <<cmpA, cmpB, cmpScores, cmpText>>
ctxVars   == <<ctxPc, ctxMessage, ctxLog, ctxCalls, ctxPath, ctxResult>>

clearVars == <<cleared, clearing>>
hookVars  == <<chatState, rendered, sent, calls, userSelected, clearVars>>
orchVars  == <<orchPc, orchArg, orchCtx, orchIntent, orchReply>>
chatVars  == <<hookVars, orchVars>>
clsVars   == <<clsPc, clsOut, clsResult>>
joinVars  == <<joinFn, joinIn, joinOut>>
locVars   == <<locPc, locGoogle, locLLM, locOut>>
toolVars  == <<joinVars, locVars>>

vars == <<rankVars, scoreVars, ctxVars, chatVars, clsVars, toolVars>>

(***************************************************************************)
(* Bounds                                                                  *)
(***************************************************************************)
MaxPlaces == 6        \* longest Place[] handed to the ranker
MaxLog == 3           \* longest message log handed directly to the resolver
MaxTurns == 2         \* sendMessage calls accepted in one run of the hook
MaxLongTurns == 25   \* sendMessage calls accepted in a long conversation
MaxIds == 3      \* placeIds passed to getMultipleRestaurantDetails
MaxClears == 1        \* clearChat calls made in one run of the hook

(***************************************************************************)
(* JavaScript values                                                       *)
(***************************************************************************)
\* `undefined` in a numeric field of a Place
Missing == 0 - 1

\* JS falsiness of a numeric field: undefined and 0 are both falsy
Falsy(x) == x = Missing \/ x = 0

\* a || b
OrElse(a, b) == IF Falsy(a) THEN b ELSE a

Min(a, b) == IF a <= b THEN a ELSE b

\* a slice that keeps the whole array
SliceAll(s, n) == s

\* Array.prototype.slice(0, n)
SliceTo(s, n) == SubSeq(s, 1, Min(Len(s), n))

(***************************************************************************)
(* Math.log10(1 + n), in millionths, for the review counts of the model.   *)
(***************************************************************************)
ReviewCounts == {0, 1, 20, 49, 50, 51, 60, 99, 100, 499, 500, 1000, 5000}

Log10Micro(n) ==
    CASE n = 0    -> 0
      [] n = 1    -> 301030
      [] n = 20   -> 1322219
      [] n = 49   -> 1698970
      [] n = 50   -> 1707570
      [] n = 51   -> 1716003
      [] n = 60   -> 1785330
      [] n = 99   -> 2000000
      [] n = 100  -> 2004321
      [] n = 499  -> 2698970
      [] n = 500  -> 2699838
      [] n = 1000 -> 3000434
      [] n = 5000 -> 3699057

(***************************************************************************)
(* lib/session-utils.ts: the ranker                                        *)
(***************************************************************************)
\* minimum review threshold
MIN_REVIEWS == 50

\* result size of the ranker
TOP_N == 5

\* place.userRatingCount || place.user_ratings_total || 0
reviewCountOf(place) ==
    OrElse(OrElse(place.userRatingCount, place.user_ratings_total), 0)

\* place.rating || 0
ratingOf(place) == OrElse(place.rating, 0)

\* Math.round(x * 100) / 100 where x = rating * log10(1 + reviewCount):
\* rating is in tenths and the logarithm in millionths, so the product is
\* x * 10^7; the result is in hundredths, rounded half up as Math.round does.
roundScore(product) == (product + 50000) \div 100000

scoreRestaurantBelowInverted(place) ==
    IF reviewCountOf(place) > MIN_REVIEWS
    THEN 0
    ELSE roundScore(ratingOf(place) * Log10Micro(reviewCountOf(place)))

scoreRestaurant(place) ==
    IF reviewCountOf(place) < MIN_REVIEWS
    THEN 0
    ELSE roundScore(ratingOf(place) * Log10Micro(reviewCountOf(place)))

\* the filter callback of getTop5Restaurants / getTop5WithScores
passesThresholdLow(place) == reviewCountOf(place) >= 5

passesThreshold(place) == reviewCountOf(place) >= MIN_REVIEWS

\* getDetailedScore: the score attached to the place (the explanatory
\* factors do not take part in ranking)
getDetailedScore(place) ==
    [restaurant |-> place, score |-> scoreRestaurant(place)]

\* Array.prototype.sort with comparator (a, b) => key(b) - key(a), as the
\* order in which the positions of the array come out; keys[i] is the key of
\* the element at position i.  The sort is stable: a position is placed
\* after every position sorted so far whose key is not smaller than its own.
RECURSIVE insertDesc(_, _, _)
insertDesc(sorted, i, keys) ==
    IF sorted = <<>> THEN <<i>>
    ELSE IF keys[Head(sorted)] >= keys[i]
         THEN <<Head(sorted)>> \o insertDesc(Tail(sorted), i, keys)
         ELSE <<i>> \o sorted

RECURSIVE sortOrderUpTo(_, _)
sortOrderUpTo(n, keys) ==
    IF n = 0 THEN <<>>
    ELSE insertDesc(sortOrderUpTo(n - 1, keys), n, keys)

RECURSIVE sortOrderFrom(_, _)
sortOrderFrom(n, keys) ==
    IF n > Len(keys) THEN <<>>
    ELSE insertDesc(sortOrderFrom(n + 1, keys), n, keys)

sortDescUnstable(s, keys) ==
    [k \in 1..Len(s) |-> s[sortOrderFrom(1, keys)[k]]]

sortDesc(s, keys) ==
    [k \in 1..Len(s) |-> s[sortOrderUpTo(Len(s), keys)[k]]]

scoresOf(ps) == [i \in 1..Len(ps) |-> scoreRestaurant(ps[i])]

getTop5RestaurantsSix(ps) ==
    LET kept == SelectSeq(ps, passesThreshold)
    IN  SliceTo(sortDesc(kept, scoresOf(kept)), TOP_N + 1)

getTop5Restaurants(ps) ==
    LET kept == SelectSeq(ps, passesThreshold)
    IN  SliceTo(sortDesc(kept, scoresOf(kept)), TOP_N)

mapDetailed(ps) == [i \in 1..Len(ps) |-> getDetailedScore(ps[i])]

scoreFields(rs) == [i \in 1..Len(rs) |-> rs[i].score]

getTop5WithScores(ps) ==
    LET detailed == mapDetailed(SelectSeq(ps, passesThreshold))
    IN  SliceTo(sortDesc(detailed, scoreFields(detailed)), TOP_N)

(***************************************************************************)
(* actions/session-context.ts: analyzeSessionContext                       *)
(***************************************************************************)
\* a || b for strings: the empty string (and a missing field) is falsy
OrElseStr(a, b) == IF a = "" THEN b ELSE a

\* the contextType values of the declared return type
ContextTypes ==
    {"restaurant_reference", "location_reference", "comparison", "follow_up", "none"}

\* the five object literals / return statements of the function
shortCircuitResult(currentMessage) ==
    [hasContext |-> FALSE, contextType |-> "none", resolvedMessage |-> currentMessage,
     impliedLocation |-> "", confidence |-> 0]

\* the value returned from the outer catch block
errorResult(currentMessage) ==
    [hasContext |-> FALSE, contextType |-> "none", resolvedMessage |-> currentMessage,
     impliedLocation |-> "", confidence |-> 0]

\* the `analysis` assigned in the inner catch (fallback call failed)
ultimateFallbackAnalysis(currentMessage) ==
    [hasContext |-> FALSE, contextType |-> "none", resolvedMessage |-> currentMessage,
     impliedLocation |-> "", confidence |-> 0]

\* contextType computed from the upper-cased fallback answer; the answer is
\* represented by the set of keywords it contains
fallbackContextType(keywords) ==
    IF "RESTAURANT" \in keywords THEN "restaurant_reference"
    ELSE IF "LOCATION" \in keywords THEN "location_reference"
    ELSE IF "FOLLOW_UP" \in keywords THEN "follow_up"
    ELSE "none"

\* a fallback analysis that trusts the coarse answer
fallbackAnalysisConfident(currentMessage, keywords) ==
    [hasContext |-> fallbackContextType(keywords) # "none",
     contextType |-> fallbackContextType(keywords),
     resolvedMessage |-> currentMessage,
     impliedLocation |-> "",
     confidence |-> 90]

\* the `analysis` assigned after a successful fallback call
fallbackAnalysis(currentMessage, keywords) ==
    [hasContext |-> fallbackContextType(keywords) # "none",
     contextType |-> fallbackContextType(keywords),
     resolvedMessage |-> currentMessage,
     impliedLocation |-> "",
     confidence |-> 50]

\* the final return statement: every field with its || default
finalResult(analysis, currentMessage) ==
    [hasContext |-> analysis.hasContext,
     contextType |-> OrElseStr(analysis.contextType, "none"),
     resolvedMessage |-> OrElseStr(analysis.resolvedMessage, currentMessage),
     impliedLocation |-> analysis.impliedLocation,
     confidence |-> OrElse(analysis.confidence, 0)]

\* chatState.messages.length <= 1
noHistoryStrict(log) == Len(log) < 1

noHistory(log) == Len(log) <= 1

(***************************************************************************)
(* What the external capability can answer.                                *)
(***************************************************************************)
\* the rewrite of an utterance with its references resolved
Rewritten(msg) == msg \o " [resolved]"

\* JSON.parse(response) when it is an object: the schema fixes the type of
\* each field, not its value.  A missing boolean reads as false, a missing
\* number as 0 and a missing string as "" under the || defaults.
StructuredAnalyses(currentMessage) ==
    [hasContext : BOOLEAN,
     contextType : {"restaurant_reference", "comparison", "none", "RESTAURANT", ""},
     resolvedMessage : {currentMessage, Rewritten(currentMessage), ""},
     impliedLocation : {"", "Brooklyn"},
     confidence : {0, 30, 70, 90}]

\* outcomes of `await model.generateContent(prompt)` + JSON.parse
StructuredOutcomes(currentMessage) ==
    { [kind |-> "throw"], [kind |-> "unparsable"], [kind |-> "null"] }
    \cup { [kind |-> "object", analysis |-> a] : a \in StructuredAnalyses(currentMessage) }

\* outcomes of `await fallbackModel.generateContent(simplePrompt)`
FallbackOutcomes ==
    { [kind |-> "throw"] }
    \cup { [kind |-> "text", keywords |-> k] : k \in SUBSET {"RESTAURANT", "LOCATION", "FOLLOW_UP"} }

NoResolution ==
    [hasContext |-> FALSE, contextType |-> "", resolvedMessage |-> "",
     impliedLocation |-> "", confidence |-> 0]

CtxIdle ==
    /\ ctxPc = "idle" /\ ctxMessage = "" /\ ctxLog = <<>>
    /\ ctxCalls = 0 /\ ctxPath = "" /\ ctxResult = NoResolution

\* entry up to the first await: the short circuit, or the structured call
CtxEnter(others) ==
    /\ ctxPc = "start"
    /\ IF noHistory(ctxLog)
       THEN /\ ctxPc' = "done"
            /\ ctxPath' = "shortCircuit"
            /\ ctxResult' = shortCircuitResult(ctxMessage)
            /\ UNCHANGED ctxCalls
       ELSE /\ ctxPc' = "awaitStructured"
            /\ ctxCalls' = ctxCalls + 1
            /\ UNCHANGED <<ctxPath, ctxResult>>
    /\ UNCHANGED <<ctxMessage, ctxLog, others>>

\* the structured call settles
CtxStructuredSettles(others) ==
    /\ ctxPc = "awaitStructured"
    /\ \E out \in StructuredOutcomes(ctxMessage) :
          CASE out.kind = "throw" ->
                  \* generateContent rejected: outer catch
                  /\ ctxPc' = "done"
                  /\ ctxPath' = "outerCatch"
                  /\ ctxResult' = errorResult(ctxMessage)
                  /\ UNCHANGED ctxCalls
            [] out.kind = "null" ->
                  \* JSON.parse gave null: reading analysis.resolvedMessage
                  \* throws a TypeError, caught by the outer catch
                  /\ ctxPc' = "done"
                  /\ ctxPath' = "outerCatch"
                  /\ ctxResult' = errorResult(ctxMessage)
                  /\ UNCHANGED ctxCalls
            [] out.kind = "unparsable" ->
                  \* JSON.parse threw: second call with the simple prompt
                  /\ ctxPc' = "awaitFallback"
                  /\ ctxCalls' = ctxCalls + 1
                  /\ UNCHANGED <<ctxPath, ctxResult>>
            [] out.kind = "object" ->
                  /\ ctxPc' = "done"
                  /\ ctxPath' = "structured"
                  /\ ctxResult' = finalResult(out.analysis, ctxMessage)
                  /\ UNCHANGED ctxCalls
    /\ UNCHANGED <<ctxMessage, ctxLog, others>>

\* the fallback call settles
CtxFallbackSettles(others) ==
    /\ ctxPc = "awaitFallback"
    /\ \E out \in FallbackOutcomes :
          IF out.kind = "throw"
          THEN /\ ctxPath' = "ultimateFallback"
               /\ ctxResult' = finalResult(ultimateFallbackAnalysis(ctxMessage), ctxMessage)
          ELSE /\ ctxPath' = "fallback"
               /\ ctxResult' = finalResult(fallbackAnalysis(ctxMessage, out.keywords), ctxMessage)
    /\ ctxPc' = "done"
    /\ UNCHANGED <<ctxCalls, ctxMessage, ctxLog, others>>

(***************************************************************************)
(* Data of a conversation                                                  *)
(***************************************************************************)
\* a ChatMessage: metadata.restaurants is <<>> when undefined,
\* metadata.selectedRestaurant is NoPlace when undefined, quickActions is
\* the number of quick actions attached
message(id, role, content, restaurants, selected, quickActions) ==
    [id |-> id, role |-> role, content |-> content, restaurants |-> restaurants,
     selectedRestaurant |-> selected, quickActions |-> quickActions]

NoPlace == [id |-> 0, name |-> "", rating |-> Missing,
            userRatingCount |-> Missing, user_ratings_total |-> Missing]

\* A message as it sits in chatState.messages.  The log keeps of a message
\* what the hook and the orchestrator read back from it: its id, its role,
\* whether its content is empty ("" or "text") and the restaurants shown
\* with it; the wording and the quick actions are looked at on the reply
\* orchestrate returns (orchReply).
logEntry(m) ==
    [id |-> m.id, role |-> m.role,
     content |-> IF m.content = "" THEN "" ELSE "text",
     restaurants |-> m.restaurants]

\* useChat.ts: the welcome message, with its three quick actions
welcomeMessage == logEntry(message("welcome", "assistant", "welcome", <<>>, NoPlace, 3))

\* the user message built by sendMessage
userMessageOf(content) == logEntry(message("uuid", "user", content, <<>>, NoPlace, 0))

\* the message sendMessage appends when the orchestrate promise rejects
errorMessage == logEntry(message("uuid", "assistant", "hook_error", <<>>, NoPlace, 0))

\* what the user can type or click; content.trim() of each
Utterances == {"is it expensive?", "hi there", "   "}

Trim(content) == IF content = "   " THEN "" ELSE content

\* userMessage.toLowerCase().includes(word) for the words orchestrate tests
Includes(content, word) == content = "hi there" /\ word = "hi"

(***************************************************************************)
(* actions/restaurants.ts: searchRestaurants                               *)
(***************************************************************************)
\* places of a Google Places answer: id, displayName, rating, userRatingCount
googlePlace(id, name, rating, count) ==
    [id |-> id, name |-> name, rating |-> rating, userRatingCount |-> count]

\* convertToPlace: rating and count default to 0, the legacy count mirrors
\* the new one
convertToPlace(gp) ==
    [id |-> gp.id, name |-> gp.name, rating |-> OrElse(gp.rating, 0),
     userRatingCount |-> OrElse(gp.userRatingCount, 0),
     user_ratings_total |-> OrElse(gp.userRatingCount, 0)]

\* data.places of the answers the Places API gives in the model
PlacesAnswers ==
    { <<>>,
      << googlePlace(1, "Joe's Pizza", 45, 500) >>,
      << googlePlace(2, "Katz", 50, 60), googlePlace(3, "Tiny", 50, 20),
         googlePlace(5, "Lombardi", 45, 500), googlePlace(4, "Unrated", 40, Missing) >>,
      << googlePlace(1, "Joe's Pizza", 45, 500), googlePlace(2, "Katz", 50, 60),
         googlePlace(5, "Lombardi", 45, 500), googlePlace(6, "Rubirosa", 44, 1000),
         googlePlace(7, "Prince St", 40, 100), googlePlace(8, "Scarr", 35, 51) >> }

\* outcomes of `await searchRestaurants(cuisine, location)`: the location
\* cannot be resolved or the request fails (CustomAPIError), or the answer
\* is converted and ranked
searchRestaurants(answer) ==
    getTop5Restaurants([i \in 1..Len(answer) |-> convertToPlace(answer[i])])

\* the message of the CustomAPIError searchRestaurants throws: that of the
\* Error raised by getLocationBias or by a response that is not ok
SearchErrors ==
    { "Unable to resolve location - please provide a more specific location",
      "Google Places API error: 500" }

SearchOutcomes ==
    { [kind |-> "throw", restaurants |-> <<>>, error |-> e] : e \in SearchErrors }
    \cup { [kind |-> "ok", restaurants |-> searchRestaurants(a), error |-> ""]
             : a \in PlacesAnswers }

(***************************************************************************)
(* actions/gemini.ts: generateGroundedContent                              *)
(***************************************************************************)
\* outcomes of `await generateGroundedContent(prompt, options)`: it throws
\* when the grounded call and its ungrounded retry both fail, else returns
\* the text (possibly empty) and the citations found
GenerateOutcomes ==
    { [kind |-> "throw", text |-> "", citations |-> 0] }
    \cup { [kind |-> "ok", text |-> t, citations |-> c] : t \in {"", "generated"}, c \in {0, 2} }

\* response = text; response += "\n\n### Sources\n..." when citations exist
withSources(text, citations) ==
    IF citations > 0 THEN text \o " ### Sources" ELSE text

(***************************************************************************)
(* actions/intent-classifier.ts: classifyUserIntent                        *)
(***************************************************************************)
slots(name, r1, r2, location, cuisine, mealType, missingInfo) ==
    [restaurantName |-> name, restaurant1 |-> r1, restaurant2 |-> r2,
     location |-> location, cuisine |-> cuisine, mealType |-> mealType,
     missingInfo |-> missingInfo]

NoSlots == slots("", "", "", "", "", "", {})

\* extractedData.missingInfo answered as a number instead of an array:
\* JSON.parse accepts it and classifyUserIntent does not look at it
NotAnArray == {"<number>"}

intent(type, confidence, extractedData) ==
    [type |-> type, confidence |-> confidence, extractedData |-> extractedData]

\* JSON.parse(response) when it is an object: `type` is any string, or
\* missing (""); confidence any number, or missing
ParsedIntents ==
    { intent("incomplete_request", 90, slots("", "", "", "", c, "", m))
        : c \in {"", "pizza"}, m \in {{}, {"location"}, {"cuisine"}} }
    \cup { intent("context_switch", 90, slots("", "", "", "", c, "", {})) : c \in {"", "sushi"} }
    \cup { intent("restaurant_search", 90, slots("", "", "", "Queens", "pizza", "", {})),
           intent("restaurant_search", 90, slots("", "", "", "", "", "brunch", {})),
           intent("", 90, NoSlots) }
    \cup { intent(t, 90, slots(n, "", "", "", "", "", {}))
        : t \in {"restaurant_insights", "restaurant_pricing"}, n \in {"", "Joe"} }
    \cup { intent("restaurant_comparison", 90, slots("", "Joe", r2, "", "", "", {}))
        : r2 \in {"", "Katz"} }
    \cup { intent("conversational", c, NoSlots) : c \in {90, 150, Missing} }
    \cup { intent(t, 90, NoSlots) : t \in {"follow_up", "greeting"} }
    \cup { intent("incomplete_request", 90, slots("", "", "", "", "", "", NotAnArray)) }

ClassifierOutcomes ==
    { [kind |-> "throw", parsed |-> intent("", 0, NoSlots)],
      [kind |-> "unparsable", parsed |-> intent("", 0, NoSlots)] }
    \cup { [kind |-> "object", parsed |-> i] : i \in ParsedIntents }

Max(a, b) == IF a >= b THEN a ELSE b

\* a classifier that answers `conversational` when the call fails
classifyUserIntentConversational(out) ==
    IF out.kind = "object"
    THEN intent(OrElseStr(out.parsed.type, "restaurant_search"),
                Max(0, Min(100, IF out.parsed.confidence = Missing
                                THEN 80 ELSE out.parsed.confidence)),
                out.parsed.extractedData)
    ELSE intent("conversational", 0, NoSlots)

\* the value classifyUserIntent resolves to
classifyUserIntent(out) ==
    IF out.kind = "object"
    THEN intent(OrElseStr(out.parsed.type, "restaurant_search"),
                Max(0, Min(100, IF out.parsed.confidence = Missing
                                THEN 80 ELSE out.parsed.confidence)),
                out.parsed.extractedData)
    ELSE intent("unknown", 0, NoSlots)

NoIntent == intent("", 0, NoSlots)

NoOutcome == [kind |-> "", parsed |-> NoIntent]

ClsIdle == clsPc = "idle" /\ clsOut = NoOutcome /\ clsResult = NoIntent

(***************************************************************************)
(* actions/simple-orchestrator.ts: orchestrate                             *)
(***************************************************************************)
\* restaurant.name.toLowerCase().includes(name.toLowerCase())
NameIncludes(full, part) ==
    \/ full = part
    \/ full = "Joe's Pizza" /\ part = "Joe"

\* Array.prototype.find: the first element satisfying the test, or undefined
RECURSIVE findMatch(_, _)
findMatch(ps, name) ==
    IF ps = <<>> THEN NoPlace
    ELSE IF NameIncludes(Head(ps).name, name) \/ NameIncludes(name, Head(ps).name)
         THEN Head(ps)
         ELSE findMatch(Tail(ps), name)

\* the local lookup of the restaurant_insights branch
lookupRestaurant(state, name) ==
    IF state.selectedRestaurant # NoPlace
       /\ NameIncludes(state.selectedRestaurant.name, name)
    THEN state.selectedRestaurant
    ELSE findMatch(state.lastTop5, name)

\* chatState.messages.filter(msg => msg.role === 'assistant').slice(-1)[0]
hasAssistantMessage(log) == \E i \in 1..Len(log) : log[i].role = "assistant"

\* the responseMessage built at the end of orchestrate
responseMessage(response, restaurants, selected, state, quickActions) ==
    message("uuid", "assistant", response, restaurants,
            IF selected # NoPlace THEN selected ELSE state.selectedRestaurant,
            quickActions)

NoMessage == message("", "", "", <<>>, NoPlace, 0)

NoContext == [hasContext |-> FALSE, resolvedMessage |-> "", impliedLocation |-> "",
              processedMessage |-> ""]

initialChatState ==
    [messages |-> <<>>, selectedRestaurant |-> NoPlace, lastTop5 |-> <<>>,
     conversationId |-> 0, isLoading |-> FALSE, error |-> ""]

OrchIdle ==
    /\ orchPc = "idle" /\ orchArg = initialChatState /\ orchCtx = NoContext
    /\ orchIntent = NoIntent /\ orchReply = NoMessage

\* the branches that return without awaiting anything:
\* <<response, quick actions, chatState after the branch>>
syncBranch(i, userMessage, state) ==
    LET d == i.extractedData IN
    CASE i.type = "incomplete_request" ->
            IF d.cuisine # "" /\ "location" \in d.missingInfo
            THEN <<"ask_location", 4, state>>
            ELSE IF "cuisine" \in d.missingInfo
                 THEN <<"ask_cuisine", 4, state>>
                 ELSE <<"ask_cuisine_and_location", 3, state>>
      [] i.type = "context_switch" ->
            IF d.cuisine # ""
            THEN <<"switch_to_cuisine", 3,
                   [state EXCEPT !.lastTop5 = <<>>, !.selectedRestaurant = NoPlace]>>
            ELSE <<"switch_ack", 4, state>>
      [] i.type = "restaurant_insights" -> <<"insights_which_restaurant", 0, state>>
      [] i.type = "restaurant_comparison" -> <<"comparison_which_restaurants", 0, state>>
      [] i.type = "restaurant_pricing" -> <<"pricing_which_restaurant", 0, state>>
      [] i.type = "conversational" ->
            IF Includes(userMessage, "hi") \/ Includes(userMessage, "hello")
               \/ Includes(userMessage, "hey")
            THEN <<"greeting", 4, state>>
            ELSE IF Includes(userMessage, "thank") \/ Includes(userMessage, "thanks")
                 THEN <<"you_are_welcome", 2, state>>
                 ELSE <<"capabilities", 4, state>>
      [] i.type = "follow_up" -> <<"followup_no_previous_message", 2, state>>
      [] OTHER -> <<"not_sure_what_you_want", 3, state>>

\* a dispatch that searches for an incomplete request whose cuisine is known
awaitedCallSearchesIncomplete(i, userMessage, state) ==
    LET d == i.extractedData IN
    CASE i.type = "restaurant_search" -> "search"
      [] i.type = "incomplete_request" -> IF d.cuisine # "" THEN "search" ELSE "none"
      [] i.type \in {"restaurant_insights", "restaurant_pricing"} ->
            IF d.restaurantName # "" THEN "generate" ELSE "none"
      [] i.type = "restaurant_comparison" ->
            IF d.restaurant1 # "" /\ d.restaurant2 # "" THEN "generate" ELSE "none"
      [] i.type = "conversational" ->
            IF \/ Includes(userMessage, "hi") \/ Includes(userMessage, "hello")
               \/ Includes(userMessage, "hey") \/ Includes(userMessage, "thank")
               \/ Includes(userMessage, "thanks") \/ Includes(userMessage, "help")
               \/ Includes(userMessage, "what can you do")
            THEN "none" ELSE "generate"
      [] i.type = "follow_up" ->
            IF hasAssistantMessage(state.messages) THEN "generate" ELSE "none"
      [] OTHER -> "none"

\* a dispatch whose fallback branch searches
awaitedCallFallbackSearches(i, userMessage, state) ==
    LET d == i.extractedData IN
    CASE i.type = "restaurant_search" -> "search"
      [] i.type \in {"restaurant_insights", "restaurant_pricing"} ->
            IF d.restaurantName # "" THEN "generate" ELSE "none"
      [] i.type = "restaurant_comparison" ->
            IF d.restaurant1 # "" /\ d.restaurant2 # "" THEN "generate" ELSE "none"
      [] i.type = "conversational" ->
            IF \/ Includes(userMessage, "hi") \/ Includes(userMessage, "hello")
               \/ Includes(userMessage, "hey") \/ Includes(userMessage, "thank")
               \/ Includes(userMessage, "thanks") \/ Includes(userMessage, "help")
               \/ Includes(userMessage, "what can you do")
            THEN "none" ELSE "generate"
      [] i.type = "follow_up" ->
            IF hasAssistantMessage(state.messages) THEN "generate" ELSE "none"
      [] i.type \in {"incomplete_request", "context_switch"} -> "none"
      [] OTHER -> "search"

\* a dispatch whose follow_up branch generates whatever the log holds
awaitedCallFollowUpAlways(i, userMessage, state) ==
    LET d == i.extractedData IN
    CASE i.type = "restaurant_search" -> "search"
      [] i.type \in {"restaurant_insights", "restaurant_pricing"} ->
            IF d.restaurantName # "" THEN "generate" ELSE "none"
      [] i.type = "restaurant_comparison" ->
            IF d.restaurant1 # "" /\ d.restaurant2 # "" THEN "generate" ELSE "none"
      [] i.type = "conversational" ->
            IF \/ Includes(userMessage, "hi") \/ Includes(userMessage, "hello")
               \/ Includes(userMessage, "hey") \/ Includes(userMessage, "thank")
               \/ Includes(userMessage, "thanks") \/ Includes(userMessage, "help")
               \/ Includes(userMessage, "what can you do")
            THEN "none" ELSE "generate"
      [] i.type = "follow_up" -> "generate"
      [] OTHER -> "none"

\* the external call a branch awaits: "search", "generate" or "none"
awaitedCall(i, userMessage, state) ==
    LET d == i.extractedData IN
    CASE i.type = "restaurant_search" -> "search"
      [] i.type \in {"restaurant_insights", "restaurant_pricing"} ->
            IF d.restaurantName # "" THEN "generate" ELSE "none"
      [] i.type = "restaurant_comparison" ->
            IF d.restaurant1 # "" /\ d.restaurant2 # "" THEN "generate" ELSE "none"
      [] i.type = "conversational" ->
            IF \/ Includes(userMessage, "hi") \/ Includes(userMessage, "hello")
               \/ Includes(userMessage, "hey") \/ Includes(userMessage, "thank")
               \/ Includes(userMessage, "thanks") \/ Includes(userMessage, "help")
               \/ Includes(userMessage, "what can you do")
            THEN "none" ELSE "generate"
      [] i.type = "follow_up" ->
            IF hasAssistantMessage(state.messages) THEN "generate" ELSE "none"
      [] OTHER -> "none"

\* missingInfo.includes(...) on a value that has no such method: a
\* TypeError outside every handler's try block
throwsInBranch(i) ==
    i.type = "incomplete_request" /\ i.extractedData.missingInfo = NotAnArray

\* the message with quick actions a catch block could have returned
caughtMessageWithActions ==
    message("uuid", "assistant", "orchestrate_error", <<>>, NoPlace, 3)

\* the message returned from the catch block of orchestrate
caughtMessage ==
    message("uuid", "assistant", "orchestrate_error", <<>>, NoPlace, 0)

\* When orchestrate returns its locals are gone; the type of the intent it
\* handled is kept until the promise settles.
handled(i) == intent(i.type, 0, NoSlots)

\* React flushes the render of a state update before the browser handles
\* the next network event: the steps of the server action and the settling
\* of its promise see a hook whose last update has been rendered.
committed == rendered = chatState

\* orchestrate is called: everything up to `await analyzeSessionContext`
OrchStart ==
    /\ orchPc = "idle"
    /\ committed
    /\ calls # <<>>
    /\ orchPc' = "context"
    /\ orchArg' = Head(calls).arg
    /\ ctxPc' = "start"
    /\ ctxMessage' = Head(calls).content
    /\ ctxLog' = Head(calls).arg.messages
    /\ ctxCalls' = 0
    /\ ctxPath' = ""
    /\ ctxResult' = NoResolution
    /\ UNCHANGED <<orchCtx, orchIntent, orchReply, hookVars, rankVars, scoreVars, clsVars, toolVars>>

\* analyzeSessionContext resolved: processedMessage is chosen by the
\* hasContext flag alone and classifyUserIntent(processedMessage) is awaited
OrchContextResolved ==
    /\ orchPc = "context"
    /\ committed
    /\ ctxPc = "done"
    /\ orchPc' = "classify"
    /\ orchCtx' = [hasContext |-> ctxResult.hasContext,
                   resolvedMessage |-> ctxResult.resolvedMessage,
                   impliedLocation |-> ctxResult.impliedLocation,
                   processedMessage |-> IF ctxResult.hasContext
                                        THEN ctxResult.resolvedMessage
                                        ELSE ctxMessage]
    /\ ctxPc' = "idle"
    /\ ctxMessage' = ""
    /\ ctxLog' = <<>>
    /\ ctxCalls' = 0
    /\ ctxPath' = ""
    /\ ctxResult' = NoResolution
    /\ UNCHANGED <<orchArg, orchIntent, orchReply, hookVars, rankVars, scoreVars, clsVars, toolVars>>

\* classifyUserIntent resolved: the branch of the intent runs up to its
\* await, or to the end of orchestrate when it awaits nothing
OrchClassified ==
    /\ orchPc = "classify"
    /\ committed
    /\ \E out \in ClassifierOutcomes :
          LET i == classifyUserIntent(out)
              userMessage == Head(calls).content
              call == awaitedCall(i, userMessage, orchArg)
              b == syncBranch(i, userMessage, orchArg)
          IN  IF throwsInBranch(i)
              THEN /\ orchPc' = "caught"
                   /\ orchReply' = caughtMessage
                   /\ orchIntent' = handled(i)
                   /\ orchCtx' = NoContext
                   /\ UNCHANGED orchArg
              ELSE IF call = "none"
              THEN /\ orchPc' = "returned"
                   /\ orchArg' = b[3]
                   /\ orchReply' = responseMessage(b[1], <<>>, NoPlace, b[3], b[2])
                   /\ orchIntent' = handled(i)
                   /\ orchCtx' = NoContext
              ELSE /\ orchPc' = IF call = "search" THEN "awaitSearch" ELSE "awaitGenerate"
                   /\ orchIntent' = i
                   /\ UNCHANGED <<orchArg, orchReply, orchCtx>>
    /\ UNCHANGED <<hookVars, ctxVars, rankVars, scoreVars, clsVars, toolVars>>

\* a restaurant_search branch whose catch block answers with the error's
\* own message
searchBranchRawError(out, state) ==
    IF out.kind = "throw"
    THEN responseMessage(out.error, <<>>, NoPlace, state, 0)
    ELSE IF Len(out.restaurants) > 0
         THEN responseMessage("search_results", out.restaurants, NoPlace, state,
                              IF Len(out.restaurants) > 1 THEN 2 ELSE 1)
         ELSE responseMessage("search_empty", <<>>, NoPlace, state, 0)

\* the restaurant_search branch after its await, up to the responseMessage:
\* cuisine and location always have a value ('restaurants', 'Manhattan'),
\* `restaurants` stays [] unless the search returned
searchBranch(out, state) ==
    IF out.kind = "throw"
    THEN responseMessage("search_failed", <<>>, NoPlace, state, 0)
    ELSE IF Len(out.restaurants) > 0
         THEN responseMessage("search_results", out.restaurants, NoPlace, state,
                              IF Len(out.restaurants) > 1 THEN 2 ELSE 1)
         ELSE responseMessage("search_empty", <<>>, NoPlace, state, 0)

\* restaurant_search: `await searchRestaurants(cuisine, location)` settles
OrchSearchSettles ==
    /\ orchPc = "awaitSearch"
    /\ committed
    /\ \E out \in SearchOutcomes : orchReply' = searchBranch(out, orchArg)
    /\ orchPc' = "returned"
    /\ orchIntent' = handled(orchIntent)
    /\ orchCtx' = NoContext
    /\ UNCHANGED <<orchArg, hookVars, ctxVars, rankVars, scoreVars, clsVars, toolVars>>

\* insights, comparison, pricing, conversational, follow_up:
\* `await generateGroundedContent(...)` settles
OrchGenerateSettles ==
    /\ orchPc = "awaitGenerate"
    /\ committed
    /\ \E out \in GenerateOutcomes :
          LET t == orchIntent.type
              failed == out.kind = "throw"
              cited == withSources(out.text, out.citations)
          IN  orchReply' =
                CASE t = "restaurant_insights" ->
                        responseMessage(IF failed THEN "insights_failed" ELSE cited, <<>>,
                            lookupRestaurant(orchArg, orchIntent.extractedData.restaurantName),
                            orchArg, IF failed THEN 0 ELSE 3)
                  [] t = "restaurant_comparison" ->
                        responseMessage(IF failed THEN "comparison_failed" ELSE cited, <<>>,
                            NoPlace, orchArg, IF failed THEN 0 ELSE 2)
                  [] t = "restaurant_pricing" ->
                        responseMessage(IF failed THEN "pricing_failed" ELSE cited, <<>>,
                            NoPlace, orchArg, IF failed THEN 0 ELSE 2)
                  [] t = "conversational" ->
                        responseMessage(IF failed THEN "conversational_failed"
                                        ELSE OrElseStr(out.text, "conversational_default"),
                            <<>>, NoPlace, orchArg, 3)
                  [] t = "follow_up" ->
                        responseMessage(IF failed THEN "followup_failed" ELSE cited, <<>>,
                            NoPlace, orchArg, 2)
    /\ orchPc' = "returned"
    /\ orchIntent' = handled(orchIntent)
    /\ orchCtx' = NoContext
    /\ UNCHANGED <<orchArg, hookVars, ctxVars, rankVars, scoreVars, clsVars, toolVars>>

(***************************************************************************)
(* hooks/useChat.ts                                                        *)
(***************************************************************************)
\* a sendMessage whose optimistic update does not set isLoading
SendMessageKeepsIdle(content, turns) ==
    /\ sent < turns
    /\ Trim(content) # ""
    /\ ~rendered.isLoading
    /\ sent' = sent + 1
    /\ chatState' = [chatState EXCEPT
                        !.messages = Append(@, userMessageOf(Trim(content))),
                        !.error = ""]
    /\ calls' = Append(calls,
                  [content |-> content,
                   arg |-> [rendered EXCEPT
                              !.messages = Append(@, userMessageOf(Trim(content)))],
                   logBefore |-> chatState.messages,
                   conversationId |-> chatState.conversationId])
    /\ UNCHANGED <<rendered, userSelected, clearVars, orchVars, ctxVars, rankVars, scoreVars, clsVars, toolVars>>

\* sendMessage(content), up to `await orchestrate(...)`.  The guard and the
\* chatState handed to orchestrate come from the closure (rendered); the
\* functional setChatState update works on the current state.
SendMessageWithin(content, turns) ==
    /\ sent < turns
    /\ Trim(content) # ""
    /\ ~rendered.isLoading
    /\ sent' = sent + 1
    /\ chatState' = [chatState EXCEPT
                        !.messages = Append(@, userMessageOf(Trim(content))),
                        !.isLoading = TRUE,
                        !.error = ""]
    /\ calls' = Append(calls,
                  [content |-> content,
                   arg |-> [rendered EXCEPT
                              !.messages = Append(@, userMessageOf(Trim(content)))],
                   logBefore |-> chatState.messages,
                   conversationId |-> chatState.conversationId])
    /\ UNCHANGED <<rendered, userSelected, clearVars, orchVars, ctxVars, rankVars, scoreVars, clsVars, toolVars>>

SendMessage(content) == SendMessageWithin(content, MaxTurns)

\* React renders the hook again: sendMessage is re-created over chatState
Render ==
    /\ rendered # chatState
    /\ rendered' = chatState
    /\ UNCHANGED <<chatState, sent, calls, userSelected, clearVars, orchVars, ctxVars, rankVars, scoreVars, clsVars, toolVars>>

orchReset ==
    /\ orchPc' = "idle" /\ orchArg' = initialChatState /\ orchCtx' = NoContext
    /\ orchIntent' = NoIntent /\ orchReply' = NoMessage

\* a continuation that selects the first restaurant of any list
selectedAfterAnyList(prev, shown) == IF Len(shown) >= 1 THEN shown[1] ELSE prev

\* newState.selectedRestaurant: the only restaurant of the reply, if it
\* carries exactly one
selectedAfter(prev, shown) == IF Len(shown) = 1 THEN shown[1] ELSE prev

\* the orchestrate promise resolves: the continuation of sendMessage
TurnCompletes ==
    /\ orchPc \in {"returned", "caught"}
    /\ committed
    /\ LET shown == orchReply.restaurants IN
       chatState' = [chatState EXCEPT
                        !.messages = Append(@, logEntry(orchReply)),
                        !.isLoading = FALSE,
                        !.lastTop5 = IF Len(shown) > 0 THEN SliceTo(shown, 5) ELSE @,
                        !.selectedRestaurant = selectedAfter(@, shown)]
    /\ userSelected' = IF Len(orchReply.restaurants) = 1 THEN FALSE ELSE userSelected
    /\ calls' = Tail(calls)
    /\ orchReset
    /\ UNCHANGED <<rendered, sent, clearVars, ctxVars, rankVars, scoreVars, clsVars, toolVars>>

\* the orchestrate promise rejects (the server action's response is lost):
\* the catch block of sendMessage
TurnFails ==
    /\ orchPc \in {"returned", "caught"}
    /\ committed
    /\ chatState' = [chatState EXCEPT
                        !.messages = Append(@, errorMessage),
                        !.isLoading = FALSE,
                        !.error = "error"]
    /\ calls' = Tail(calls)
    /\ orchReset
    /\ UNCHANGED <<rendered, sent, userSelected, clearVars, ctxVars, rankVars, scoreVars, clsVars, toolVars>>

\* the restaurants whose cards are on screen
shownRestaurants ==
    UNION { { chatState.messages[i].restaurants[k]
                : k \in 1..Len(chatState.messages[i].restaurants) }
            : i \in 1..Len(chatState.messages) }

\* selectRestaurant(restaurant): the user clicks a card.  The click does
\* not depend on the steps of a running orchestrate call and they do not
\* read chatState, so it is taken before the call starts or after it ends.
SelectRestaurant(restaurant) ==
    /\ orchPc = "idle"
    /\ chatState.selectedRestaurant # restaurant
    /\ chatState' = [chatState EXCEPT !.selectedRestaurant = restaurant]
    /\ userSelected' = TRUE
    /\ UNCHANGED <<rendered, sent, calls, clearVars, orchVars, ctxVars, rankVars, scoreVars, clsVars, toolVars>>

\* clearChat(), up to `await clearAllCache()`
ClearChat ==
    /\ cleared < MaxClears
    /\ cleared' = cleared + 1
    /\ clearing' = clearing + 1
    /\ UNCHANGED <<chatState, rendered, sent, calls, userSelected, orchVars, ctxVars, rankVars, scoreVars, clsVars, toolVars>>

\* clearAllCache resolved (it catches its own failures): the state is
\* replaced by a fresh one, whatever it holds by now
ClearSettles ==
    /\ clearing > 0
    /\ committed
    /\ clearing' = clearing - 1
    /\ chatState' = [initialChatState EXCEPT
                        !.messages = <<welcomeMessage>>,
                        !.conversationId = chatState.conversationId + 1]
    /\ userSelected' = FALSE
    /\ UNCHANGED <<rendered, sent, calls, cleared, orchVars, ctxVars, rankVars, scoreVars, clsVars, toolVars>>

ChatIdle ==
    /\ chatState = initialChatState /\ rendered = initialChatState
    /\ sent = 0 /\ calls = <<>> /\ userSelected = FALSE /\ cleared = 0 /\ clearing = 0 /\ OrchIdle

(***************************************************************************)
(* actions/intelligent-agents.ts: resolveLocationCoordinates               *)
(***************************************************************************)
\* Coordinates are whole degrees, confidences hundredths.
\* A JSON value where a number is expected: a number, or something else
jsonNumber(n) == [type |-> "number", value |-> n]
jsonString == [type |-> "string", value |-> 0]

locationResult(lat, lng, normalizedName, confidence) ==
    [coordinates |-> [lat |-> lat, lng |-> lng], normalizedName |-> normalizedName,
     confidence |-> confidence]

NoLocation == locationResult(0, 0, "", Missing)

\* confidence by geometry.location_type
googleConfidence(locationType) ==
    CASE locationType = "ROOFTOP" -> 99
      [] locationType = "RANGE_INTERPOLATED" -> 95
      [] locationType = "GEOMETRIC_CENTER" -> 90
      [] locationType = "APPROXIMATE" -> 85
      [] OTHER -> 95

\* how geocodeWithGoogleAPI settles: null for a missing key, an HTTP error,
\* a status other than OK, no results or a network error; a rejection when
\* encodeURIComponent throws; else the first result
GoogleOutcomes ==
    { [kind |-> k, result |-> NoLocation]
        : k \in {"noKey", "httpError", "statusNotOK", "noResults", "networkError", "throw"} }
    \cup { [kind |-> "result",
            result |-> locationResult(lat, lng, "formatted address", googleConfidence(t))]
             : lat \in {0 - 33, 48}, lng \in {0 - 74, 2, 151},
               t \in {"ROOFTOP", "RANGE_INTERPOLATED", "GEOMETRIC_CENTER", "APPROXIMATE", ""} }

googleYieldsResult(out) == out.kind = "result"

\* how generateContent and JSON.parse settle in geocodeWithLLM: a rejection,
\* text that is not JSON, null, an object without coordinates, or an object
\* with coordinates
Latitudes == {jsonString, jsonNumber(0 - 91), jsonNumber(0 - 90), jsonNumber(48),
              jsonNumber(90), jsonNumber(91)}
Longitudes == {jsonString, jsonNumber(0 - 181), jsonNumber(0 - 180), jsonNumber(2),
               jsonNumber(180), jsonNumber(181)}

LLMOutcomes ==
    { [kind |-> k, lat |-> jsonString, lng |-> jsonString, normalizedName |-> "",
       confidence |-> Missing]
        : k \in {"throw", "unparsable", "null", "noCoordinates"} }
    \cup { [kind |-> "coordinates", lat |-> lat, lng |-> lng, normalizedName |-> n,
            confidence |-> c]
             : lat \in Latitudes, lng \in Longitudes, n \in {"", "Paris, France"},
               c \in {Missing, 0, 30, 95, 150} }

Abs(n) == IF n < 0 THEN 0 - n ELSE n

\* a validation that accepts any latitude a longitude could be
validCoordinatesLax(out) ==
    /\ out.kind = "coordinates"
    /\ out.lat.type = "number" /\ out.lng.type = "number"
    /\ Abs(out.lat.value) <= 180 /\ Abs(out.lng.value) <= 180

\* the negation of the test that makes geocodeWithLLM throw
validCoordinates(out) ==
    /\ out.kind = "coordinates"
    /\ out.lat.type = "number" /\ out.lng.type = "number"
    /\ Abs(out.lat.value) <= 90 /\ Abs(out.lng.value) <= 180

\* the value geocodeWithLLM returns for a valid answer
geocodeWithLLM(out, location) ==
    locationResult(out.lat.value, out.lng.value, OrElseStr(out.normalizedName, location),
                   Max(50, Min(99, IF Falsy(out.confidence) THEN 80 ELSE out.confidence)))

NoGoogleOutcome == [kind |-> "", result |-> NoLocation]
NoLLMOutcome ==
    [kind |-> "", lat |-> jsonString, lng |-> jsonString, normalizedName |-> "",
     confidence |-> Missing]

LocIdle ==
    /\ locPc = "idle" /\ locGoogle = NoGoogleOutcome /\ locLLM = NoLLMOutcome
    /\ locOut = NoLocation

locOthers == <<rankVars, scoreVars, ctxVars, chatVars, clsVars, joinVars>>

\* entry up to `await geocodeWithGoogleAPI(location)`
LocCall ==
    /\ locPc = "start"
    /\ locPc' = "awaitGoogle"
    /\ UNCHANGED <<locGoogle, locLLM, locOut, locOthers>>

\* geocodeWithGoogleAPI settles: its result is returned, or
\* geocodeWithLLM(location) is awaited
LocGoogleSettles ==
    /\ locPc = "awaitGoogle"
    /\ \E out \in GoogleOutcomes :
          /\ locGoogle' = out
          /\ IF googleYieldsResult(out)
             THEN locPc' = "returned" /\ locOut' = out.result
             ELSE locPc' = "awaitLLM" /\ UNCHANGED locOut
    /\ UNCHANGED <<locLLM, locOthers>>

\* geocodeWithLLM settles: its value is returned, or its failure becomes
\* the 'all geocoding methods failed' Error
LocLLMSettles ==
    /\ locPc = "awaitLLM"
    /\ \E out \in LLMOutcomes :
          /\ locLLM' = out
          /\ IF validCoordinates(out)
             THEN locPc' = "returned" /\ locOut' = geocodeWithLLM(out, "Paris")
             ELSE locPc' = "thrown" /\ UNCHANGED locOut
    /\ UNCHANGED <<locGoogle, locOthers>>

(***************************************************************************)
(* lib/session-utils.ts: compareRestaurants                                *)
(***************************************************************************)
\* compareRestaurants: the place its text names as ranking higher, the
\* other one, and the two scores the text quotes
compareRestaurants(restaurant1, restaurant2) ==
    LET score1 == scoreRestaurant(restaurant1)
        score2 == scoreRestaurant(restaurant2)
    IN  [winner |-> IF score1 > score2 THEN restaurant1 ELSE restaurant2,
         loser |-> IF score1 > score2 THEN restaurant2 ELSE restaurant1,
         winnerScore |-> Max(score1, score2),
         loserScore |-> Min(score1, score2)]

NoComparison ==
    [winner |-> NoPlace, loser |-> NoPlace, winnerScore |-> Missing, loserScore |-> Missing]

(***************************************************************************)
(* Parallel external calls and their joins                                 *)
(***************************************************************************)
\* how one promise of the joined array settled; a rejected promise has no
\* value (the field then holds the empty value of its type)
settled(status, value) == [status |-> status, value |-> value]

\* webSearch and its variants: rejected, or fulfilled with SearchResult[]
SearchSettlements ==
    { settled("rejected", <<>>), settled("fulfilled", <<>>),
      settled("fulfilled", <<"result">>) }

\* actions/search.ts: Promise.allSettled over four searches, each slot
\* `status === 'fulfilled' ? value : []`
comprehensiveRestaurantSearch(results) ==
    LET slot(r) == IF r.status = "fulfilled" THEN r.value ELSE <<>> IN
    [general |-> slot(results[1]), reddit |-> slot(results[2]),
     menu |-> slot(results[3]), pricing |-> slot(results[4])]

\* getRestaurantDetails(placeId): rejected (CustomAPIError), or fulfilled
\* with the Place of that id
DetailSettlements(placeId) ==
    { settled("rejected", NoPlace),
      settled("fulfilled", convertToPlace(googlePlace(placeId, "Katz", 45, 60))) }

\* results.filter(fulfilled).map(value)
RECURSIVE fulfilledValues(_)
fulfilledValues(results) ==
    IF results = <<>> THEN <<>>
    ELSE IF Head(results).status = "fulfilled"
         THEN <<Head(results).value>> \o fulfilledValues(Tail(results))
         ELSE fulfilledValues(Tail(results))

\* actions/restaurants.ts: Promise.allSettled over getRestaurantDetails
getMultipleRestaurantDetails(results) == fulfilledValues(results)

\* searchRestaurants(...).then(results => results.find(...)): rejected,
\* fulfilled with undefined (no such name) or with the Place found
FindSettlements(place) ==
    { settled("rejected", NoPlace), settled("fulfilled", NoPlace),
      settled("fulfilled", place) }

toolResult(success, comparison, restaurant1, restaurant2, webResults) ==
    [success |-> success, comparison |-> comparison, restaurant1 |-> restaurant1,
     restaurant2 |-> restaurant2, webResults |-> webResults]

\* actions/gemini.ts: executeTool('compareRestaurants', args).  Promise.all
\* rejects as soon as one of the two searches rejects and the catch block
\* of executeTool returns success: false, data: null; when both are found
\* data is the comparison, else searchRestaurantComparison is awaited
\* (`fallback` is how it settles).
executeCompareRestaurants(results, fallback) ==
    IF \E k \in 1..2 : results[k].status = "rejected"
    THEN toolResult(FALSE, NoComparison, NoPlace, NoPlace, <<>>)
    ELSE IF results[1].value # NoPlace /\ results[2].value # NoPlace
         THEN toolResult(TRUE, compareRestaurants(results[1].value, results[2].value),
                         results[1].value, results[2].value, <<>>)
         ELSE IF fallback.status = "rejected"
              THEN toolResult(FALSE, NoComparison, NoPlace, NoPlace, <<>>)
              ELSE toolResult(TRUE, NoComparison, NoPlace, NoPlace, fallback.value)

JoinIdle == joinFn = "none" /\ joinIn = <<>> /\ joinOut = <<>>
ToolIdle == JoinIdle /\ LocIdle

(***************************************************************************)
(* Ranker harness: a Place[] drawn from a small catalogue, each element    *)
(* with its own id (the position in the input).                            *)
(***************************************************************************)
PlaceKinds ==
    { [rating |-> 45, userRatingCount |-> 500,     user_ratings_total |-> Missing],
      [rating |-> 50, userRatingCount |-> 60,      user_ratings_total |-> Missing],
      [rating |-> 50, userRatingCount |-> 20,      user_ratings_total |-> Missing],
      [rating |-> 45, userRatingCount |-> Missing, user_ratings_total |-> 500],
      [rating |-> 40, userRatingCount |-> Missing, user_ratings_total |-> Missing] }

withId(kind, i) ==
    [id |-> i, name |-> "", rating |-> kind.rating,
     userRatingCount |-> kind.userRatingCount,
     user_ratings_total |-> kind.user_ratings_total]

ScoreIdle == cmpA = NoPlace /\ cmpB = NoPlace /\ cmpScores = <<>> /\ cmpText = NoComparison
RankIdle  == places = <<>> /\ rankFn = "none" /\ rankOut = <<>>

\* the variables of the other components, untouched by the ranker harness
rankOthers == <<scoreVars, ctxVars, chatVars, clsVars, toolVars>>
scoreOthers == <<rankVars, ctxVars, chatVars, clsVars, toolVars>>

InitRank ==
    /\ places = <<>>
    /\ rankFn = "none"
    /\ rankOut = <<>>
    /\ ScoreIdle
    /\ CtxIdle
    /\ ChatIdle
    /\ ClsIdle
    /\ ToolIdle

\* the caller collects one more place into the list it will rank
CollectPlace ==
    /\ rankFn = "none"
    /\ Len(places) < MaxPlaces
    /\ \E kind \in PlaceKinds :
          places' = Append(places, withId(kind, Len(places) + 1))
    /\ UNCHANGED <<rankFn, rankOut, rankOthers>>

CallGetTop5Restaurants ==
    /\ rankFn = "none"
    /\ rankFn' = "top5"
    /\ rankOut' = getTop5Restaurants(places)
    /\ UNCHANGED <<places, rankOthers>>

CallGetTop5WithScores ==
    /\ rankFn = "none"
    /\ rankFn' = "withScores"
    /\ rankOut' = getTop5WithScores(places)
    /\ UNCHANGED <<places, rankOthers>>

NextRank == CollectPlace \/ CallGetTop5Restaurants \/ CallGetTop5WithScores

SpecRank == InitRank /\ [][NextRank]_vars

(***************************************************************************)
(* Scoring harness: two places drawn from ratings x review counts.         *)
(***************************************************************************)
Ratings == {Missing, 0, 10, 35, 40, 44, 45, 50}

ScoreArgs ==
    { [id |-> 1, name |-> "", rating |-> r, userRatingCount |-> c,
        user_ratings_total |-> Missing]
        : r \in Ratings, c \in ReviewCounts \cup {Missing} }

InitScore ==
    /\ cmpA \in ScoreArgs
    /\ cmpB \in { [p EXCEPT !.id = 2] : p \in ScoreArgs }
    /\ cmpScores = <<>>
    /\ cmpText = NoComparison
    /\ RankIdle
    /\ CtxIdle
    /\ ChatIdle
    /\ ClsIdle
    /\ ToolIdle

CallScoreRestaurant ==
    /\ cmpScores = <<>>
    /\ cmpScores' = <<scoreRestaurant(cmpA), scoreRestaurant(cmpB)>>
    /\ UNCHANGED <<cmpA, cmpB, cmpText, scoreOthers>>

CallCompareRestaurants ==
    /\ cmpText = NoComparison
    /\ cmpText' = compareRestaurants(cmpA, cmpB)
    /\ UNCHANGED <<cmpA, cmpB, cmpScores, scoreOthers>>

NextScore ==
    \/ CallScoreRestaurant
    \/ CallCompareRestaurants

SpecScore == InitScore /\ [][NextScore]_vars

(***************************************************************************)
(* Resolver harness: analyzeSessionContext called directly with a message  *)
(* and a log of up to MaxLog messages.                                     *)
(***************************************************************************)
LogMessages ==
    { welcomeMessage, userMessageOf("hi there"),
      logEntry(message("uuid", "assistant", "generated", <<>>, NoPlace, 2)) }

ctxOthers == <<rankVars, scoreVars, chatVars, clsVars, toolVars>>

InitCtx ==
    /\ ctxPc = "start"
    /\ ctxMessage \in Utterances
    /\ ctxLog = <<>>
    /\ ctxCalls = 0
    /\ ctxPath = ""
    /\ ctxResult = NoResolution
    /\ RankIdle
    /\ ScoreIdle
    /\ ChatIdle
    /\ ClsIdle
    /\ ToolIdle

\* the caller appends one more message to the log it will pass
CtxGrowLog ==
    /\ ctxPc = "start"
    /\ Len(ctxLog) < MaxLog
    /\ \E m \in LogMessages : ctxLog' = Append(ctxLog, m)
    /\ UNCHANGED <<ctxPc, ctxMessage, ctxCalls, ctxPath, ctxResult, ctxOthers>>

NextCtx ==
    \/ CtxGrowLog
    \/ CtxEnter(ctxOthers)
    \/ CtxStructuredSettles(ctxOthers)
    \/ CtxFallbackSettles(ctxOthers)

SpecCtx == InitCtx /\ [][NextCtx]_vars

(***************************************************************************)
(* Classifier harness: classifyUserIntent called directly; the answer of   *)
(* the model is any object the response schema admits, or none.            *)
(***************************************************************************)
\* the intent names the prompt lists, plus one it does not list and ""
\* for a missing `type`
AnsweredTypes ==
    {"restaurant_search", "restaurant_insights", "restaurant_comparison",
     "restaurant_pricing", "incomplete_request", "context_switch",
     "conversational", "follow_up", "greeting", ""}

\* confidence as answered: missing, below 0, within [0,1], above 1
AnsweredConfidences == {Missing, 0 - 10, 0, 80, 100, 150}

AnsweredIntents ==
    { intent(t, c, s) : t \in AnsweredTypes, c \in AnsweredConfidences,
                        s \in {NoSlots, slots("", "", "", "", "pizza", "", {"location"})} }

AnsweredOutcomes ==
    { [kind |-> "throw", parsed |-> NoIntent],
      [kind |-> "unparsable", parsed |-> NoIntent] }
    \cup { [kind |-> "object", parsed |-> i] : i \in AnsweredIntents }

clsOthers == <<rankVars, scoreVars, ctxVars, chatVars, toolVars>>

InitClassify ==
    /\ clsPc = "start"
    /\ clsOut = NoOutcome
    /\ clsResult = NoIntent
    /\ RankIdle
    /\ ScoreIdle
    /\ CtxIdle
    /\ ChatIdle
    /\ ToolIdle

\* entry up to `await generateContent(prompt, ...)`
ClsCall ==
    /\ clsPc = "start"
    /\ clsPc' = "await"
    /\ UNCHANGED <<clsOut, clsResult, clsOthers>>

\* the call settles: parse, defaults and clamp, or the catch block
ClsSettles ==
    /\ clsPc = "await"
    /\ \E out \in AnsweredOutcomes :
          /\ clsOut' = out
          /\ clsResult' = classifyUserIntent(out)
    /\ clsPc' = "done"
    /\ UNCHANGED clsOthers

NextClassify == ClsCall \/ ClsSettles

SpecClassify == InitClassify /\ [][NextClassify]_vars

(***************************************************************************)
(* Join harness: each joining function called once, its parallel calls     *)
(* settling in every combination.                                          *)
(***************************************************************************)
joinOthers == <<rankVars, scoreVars, ctxVars, chatVars, clsVars, locVars>>

InitJoin ==
    /\ JoinIdle
    /\ LocIdle
    /\ RankIdle
    /\ ScoreIdle
    /\ CtxIdle
    /\ ChatIdle
    /\ ClsIdle

CallComprehensiveRestaurantSearch ==
    /\ joinFn = "none"
    /\ \E results \in [1..4 -> SearchSettlements] :
          /\ joinIn' = results
          /\ joinOut' = comprehensiveRestaurantSearch(results)
    /\ joinFn' = "comprehensiveRestaurantSearch"
    /\ UNCHANGED joinOthers

\* placeIds = [1, ..., n]
CallGetMultipleRestaurantDetails ==
    /\ joinFn = "none"
    /\ \E n \in 0..MaxIds :
       \E results \in [1..n -> UNION {DetailSettlements(id) : id \in 1..n}] :
          /\ \A id \in 1..n : results[id] \in DetailSettlements(id)
          /\ joinIn' = results
          /\ joinOut' = getMultipleRestaurantDetails(results)
    /\ joinFn' = "getMultipleRestaurantDetails"
    /\ UNCHANGED joinOthers

CallExecuteCompareRestaurants ==
    /\ joinFn = "none"
    /\ \E r1 \in FindSettlements(convertToPlace(googlePlace(1, "Joe's Pizza", 45, 500))),
          r2 \in FindSettlements(convertToPlace(googlePlace(2, "Katz", 50, 60))),
          fallback \in SearchSettlements :
          /\ joinIn' = <<r1, r2>>
          /\ joinOut' = executeCompareRestaurants(<<r1, r2>>, fallback)
    /\ joinFn' = "compareRestaurants"
    /\ UNCHANGED joinOthers

NextJoin ==
    \/ CallComprehensiveRestaurantSearch
    \/ CallGetMultipleRestaurantDetails
    \/ CallExecuteCompareRestaurants

SpecJoin == InitJoin /\ [][NextJoin]_vars

(***************************************************************************)
(* Location harness: resolveLocationCoordinates called once.               *)
(***************************************************************************)
InitLoc ==
    /\ locPc = "start"
    /\ locGoogle = NoGoogleOutcome
    /\ locLLM = NoLLMOutcome
    /\ locOut = NoLocation
    /\ JoinIdle
    /\ RankIdle
    /\ ScoreIdle
    /\ CtxIdle
    /\ ChatIdle
    /\ ClsIdle

NextLoc ==
    \/ LocCall
    \/ LocGoogleSettles
    \/ LocLLMSettles

SpecLoc == InitLoc /\ [][NextLoc]_vars

(***************************************************************************)
(* Orchestrator harness: the server action called on its own, with a       *)
(* message and a ChatState of the caller's choice.                         *)
(***************************************************************************)
\* logs a caller can pass: with and without an assistant message
DirectLogs ==
    { << userMessageOf("hi there") >>,
      << userMessageOf("hi there"), userMessageOf("is it expensive?") >>,
      << welcomeMessage, userMessageOf("hi there") >>,
      << userMessageOf("hi there"),
         logEntry(message("uuid", "assistant", "generated", <<>>, NoPlace, 2)),
         userMessageOf("is it expensive?") >> }

DirectStates ==
    { [initialChatState EXCEPT !.messages = log, !.lastTop5 = top5, !.conversationId = 1]
        : log \in DirectLogs,
          top5 \in { <<>>, searchRestaurants(<< googlePlace(2, "Katz", 50, 60),
                                                googlePlace(5, "Lombardi", 45, 500) >>) } }

InitOrch ==
    /\ chatState = initialChatState
    /\ rendered = initialChatState
    /\ sent = 0
    /\ calls \in { << [content |-> c, arg |-> st, logBefore |-> <<>>,
                       conversationId |-> st.conversationId] >>
                    : c \in {"is it expensive?", "hi there"}, st \in DirectStates }
    /\ userSelected = FALSE
    /\ cleared = 0
    /\ clearing = 0
    /\ OrchIdle
    /\ CtxIdle
    /\ RankIdle
    /\ ScoreIdle
    /\ ClsIdle
    /\ ToolIdle

NextOrch ==
    \/ OrchStart
    \/ CtxEnter(ctxOthers)
    \/ CtxStructuredSettles(ctxOthers)
    \/ CtxFallbackSettles(ctxOthers)
    \/ OrchContextResolved
    \/ OrchClassified
    \/ OrchSearchSettles
    \/ OrchGenerateSettles

SpecOrch == InitOrch /\ [][NextOrch]_vars

(***************************************************************************)
(* The conversation: useChat driving orchestrate.                          *)
(***************************************************************************)
\* useState(initialChatState) followed by the mount effect
Init ==
    /\ chatState = [initialChatState EXCEPT !.messages = <<welcomeMessage>>,
                                            !.conversationId = 1]
    /\ rendered = chatState
    /\ sent = 0
    /\ calls = <<>>
    /\ userSelected = FALSE
    /\ cleared = 0
    /\ clearing = 0
    /\ OrchIdle
    /\ CtxIdle
    /\ RankIdle
    /\ ScoreIdle
    /\ ClsIdle
    /\ ToolIdle

Next ==
    \/ \E content \in Utterances : SendMessage(content)
    \/ Render
    \/ \E restaurant \in shownRestaurants : SelectRestaurant(restaurant)
    \/ OrchStart
    \/ CtxEnter(ctxOthers)
    \/ CtxStructuredSettles(ctxOthers)
    \/ CtxFallbackSettles(ctxOthers)
    \/ OrchContextResolved
    \/ OrchClassified
    \/ OrchSearchSettles
    \/ OrchGenerateSettles
    \/ TurnCompletes
    \/ TurnFails
    \/ ClearChat
    \/ ClearSettles

Spec == Init /\ [][Next]_vars

(***************************************************************************)
(* The conversation when every pending call makes progress: React renders  *)
(* each state update, and the orchestrate call in progress takes its next  *)
(* step, its external calls settle and its promise settles.  The server    *)
(* action and the network do not wait for the user: a step that clicks     *)
(* keep interrupting is taken all the same, hence strong fairness.         *)
(***************************************************************************)
orchestrateProgress ==
    \/ OrchStart
    \/ CtxEnter(ctxOthers)
    \/ CtxStructuredSettles(ctxOthers)
    \/ CtxFallbackSettles(ctxOthers)
    \/ OrchContextResolved
    \/ OrchClassified
    \/ OrchSearchSettles
    \/ OrchGenerateSettles
    \/ TurnCompletes
    \/ TurnFails

SpecLive == Spec /\ SF_vars(Render) /\ SF_vars(orchestrateProgress)

(***************************************************************************)
(* Long conversation harness: the hook over many turns.  The user sends    *)
(* once the last update is on screen and every turn is a greeting, which   *)
(* orchestrate answers without awaiting an external result.                *)
(***************************************************************************)
\* orchestrate from call to return for a turn classified conversational
\* whose text holds a greeting word
OrchestrateGreeting ==
    /\ orchPc = "idle"
    /\ committed
    /\ calls # <<>>
    /\ Includes(Head(calls).content, "hi")
    /\ orchPc' = "returned"
    /\ orchArg' = Head(calls).arg
    /\ orchIntent' = handled(intent("conversational", 0, NoSlots))
    /\ orchReply' =
          LET b == syncBranch(intent("conversational", 90, NoSlots), Head(calls).content,
                              Head(calls).arg)
          IN  responseMessage(b[1], <<>>, NoPlace, b[3], b[2])
    /\ UNCHANGED <<orchCtx, hookVars, ctxVars, rankVars, scoreVars, clsVars, toolVars>>

NextLong ==
    \/ \E content \in {c \in Utterances : Includes(c, "hi")} :
          committed /\ SendMessageWithin(content, MaxLongTurns)
    \/ Render
    \/ OrchestrateGreeting
    \/ TurnCompletes

SpecLong == Init /\ [][NextLong]_vars

(***************************************************************************)
(* Properties of the ranker                                                *)
(***************************************************************************)
ranked == rankFn # "none"

\* the Place of the k-th entry of the ranker's output
outPlace(k) == IF rankFn = "withScores" THEN rankOut[k].restaurant ELSE rankOut[k]

outIds == { outPlace(k).id : k \in 1..Len(rankOut) }

qualifying == { i \in 1..Len(places) : reviewCountOf(places[i]) >= 50 }

\* C1: no place whose review count is below 50 (a missing count counting as
\* 0) appears in the output of getTop5Restaurants or getTop5WithScores.
C1_ThresholdInvariant ==
    ranked =>
        /\ \A k \in 1..Len(rankOut) : reviewCountOf(outPlace(k)) >= 50
        /\ \A i \in 1..Len(places) :
              reviewCountOf(places[i]) < 50 => places[i].id \notin outIds

C1_Witness ==
    /\ ranked
    /\ Len(rankOut) >= 2
    /\ \E i \in 1..Len(places) : places[i].userRatingCount = 20
    /\ \E i \in 1..Len(places) :
          places[i].userRatingCount = Missing /\ places[i].user_ratings_total = Missing

\* C2: the ranker's output has at most 5 entries, whatever the length of the
\* input, and is empty when no place has at least 50 reviews.
C2_TopNBound ==
    ranked =>
        /\ Len(rankOut) <= 5
        /\ (qualifying = {} => rankOut = <<>>)

C2_Witness ==
    /\ ranked
    /\ Cardinality(qualifying) > 5
    /\ Len(rankOut) = 5

\* C3: the output is ordered by non-increasing score, every qualifying place
\* left out by the truncation scores no higher than every place kept, and
\* places with equal score keep the relative order of the input list.
C3_StableDescending ==
    ranked =>
        /\ \A k, l \in 1..Len(rankOut) :
              k < l => scoreRestaurant(outPlace(k)) >= scoreRestaurant(outPlace(l))
        /\ \A i \in qualifying : \A k \in 1..Len(rankOut) :
              places[i].id \notin outIds
                  => scoreRestaurant(places[i]) <= scoreRestaurant(outPlace(k))
        /\ \A k, l \in 1..Len(rankOut) :
              (k < l /\ scoreRestaurant(outPlace(k)) = scoreRestaurant(outPlace(l)))
                  => outPlace(k).id < outPlace(l).id
        /\ rankFn = "withScores" =>
              \A k \in 1..Len(rankOut) :
                  rankOut[k].score = scoreRestaurant(rankOut[k].restaurant)

C3_Witness ==
    /\ ranked
    /\ Cardinality(qualifying) > 5
    /\ \E k, l \in 1..Len(rankOut) :
          /\ k < l
          /\ scoreRestaurant(outPlace(k)) = scoreRestaurant(outPlace(l))
          /\ outPlace(k).rating = 45 /\ outPlace(l).rating = 45
          /\ outPlace(k).userRatingCount # outPlace(l).userRatingCount
    /\ \E k \in 1..Len(rankOut) : outPlace(k).rating = 50

(***************************************************************************)
(* Properties of scoreRestaurant                                           *)
(***************************************************************************)
scored == cmpScores # <<>>

\* C4: scoreRestaurant is monotone in each argument: with the review count
\* fixed a higher rating never gives a lower score, and with the rating
\* fixed a higher review count never gives a lower score, across the
\* 50-review threshold and after rounding to 2 decimals.
C4_ScoreMonotone ==
    scored =>
        /\ (reviewCountOf(cmpA) = reviewCountOf(cmpB) /\ ratingOf(cmpA) <= ratingOf(cmpB))
              => cmpScores[1] <= cmpScores[2]
        /\ (ratingOf(cmpA) = ratingOf(cmpB) /\ reviewCountOf(cmpA) <= reviewCountOf(cmpB))
              => cmpScores[1] <= cmpScores[2]

C4_Witness ==
    /\ scored
    /\ ratingOf(cmpA) = 45 /\ ratingOf(cmpB) = 45
    /\ reviewCountOf(cmpA) = 49 /\ reviewCountOf(cmpB) = 50
    /\ cmpScores = <<0, 768>>

(***************************************************************************)
(* Properties of analyzeSessionContext                                     *)
(***************************************************************************)
\* the confidence above which the analyzer is asked to detect context (0.7)
CONFIDENCE_THRESHOLD == 70

resolved == ctxPc = "done"

\* C6: whenever analyzeSessionContext returns hasContext = true, the
\* returned confidence exceeds 0.7, on the structured path and on the
\* coarse fallback path.
C6_ConfidenceDiscipline ==
    (resolved /\ ctxResult.hasContext) => ctxResult.confidence > CONFIDENCE_THRESHOLD

\* C7: for every result of analyzeSessionContext, if hasContext is false
\* then resolvedMessage is exactly the original utterance.
C7_NoContextKeepsUtterance ==
    (resolved /\ ~ctxResult.hasContext) => ctxResult.resolvedMessage = ctxMessage

\* C8: when the log passed to analyzeSessionContext holds at most one
\* message, no call to the external capability is made, and the result has
\* hasContext = false and resolvedMessage equal to the utterance.
C8_ShortCircuit ==
    (ctxPc # "idle" /\ Len(ctxLog) <= 1) =>
        /\ ctxCalls = 0
        /\ ctxPc \in {"start", "done"}
        /\ resolved => /\ ~ctxResult.hasContext
                       /\ ctxResult.resolvedMessage = ctxMessage

C8_Witness ==
    /\ resolved
    /\ Len(ctxLog) = 1
    /\ ctxPath = "shortCircuit"
    /\ ctxCalls = 0
    /\ ctxResult.resolvedMessage = ctxMessage

\* C10: analyzeSessionContext never throws to its caller; for every
\* combination of outcomes of its external calls it returns a value whose
\* hasContext is a boolean, whose contextType is one of the five declared
\* values and whose confidence is a number.
C10_AlwaysValidResolution ==
    resolved =>
        /\ ctxPath # "threw"
        /\ ctxResult.hasContext \in BOOLEAN
        /\ ctxResult.contextType \in ContextTypes
        /\ ctxResult.confidence \in 0..100

\* C11: when the structured answer cannot be parsed, exactly one further
\* external call is made (the simple prompt); its result has confidence 0.5
\* and resolvedMessage equal to the original utterance; when that call also
\* fails the result is hasContext = false, confidence 0 and the original
\* utterance.
C11_DegradationLadder ==
    /\ ctxPc = "awaitFallback" => ctxCalls = 2
    /\ (resolved /\ ctxPath = "fallback") =>
          /\ ctxCalls = 2
          /\ ctxResult.confidence = 50
          /\ ctxResult.resolvedMessage = ctxMessage
    /\ (resolved /\ ctxPath = "ultimateFallback") =>
          /\ ctxCalls = 2
          /\ ~ctxResult.hasContext
          /\ ctxResult.confidence = 0
          /\ ctxResult.resolvedMessage = ctxMessage

C11_Witness ==
    /\ resolved
    /\ ctxPath = "fallback"
    /\ ctxCalls = 2
    /\ ctxResult.contextType = "location_reference"
    /\ ctxResult.confidence = 50

(***************************************************************************)
(* Properties of classifyUserIntent                                        *)
(***************************************************************************)
classified == clsPc = "done"

classifierFailed == clsOut.kind \in {"throw", "unparsable"}

\* classifyUserIntent returned a value: a type, a confidence in [0,1]
returnsIntent ==
    /\ clsResult.type # ""
    /\ clsResult.confidence \in 0..100

turnCompletes == orchPc = "returned" /\ orchPc' = "idle" /\ chatState'.error = ""

\* C5: after a turn whose classified intent is context_switch has been
\* handled, the conversation state used for the next turn has an empty
\* lastTop5 and an undefined selectedRestaurant, whatever they held before
\* and whether or not a new cuisine was extracted.
C5_FreshStartAfterContextSwitch ==
    [][(turnCompletes /\ orchIntent.type = "context_switch")
          => (chatState'.lastTop5 = <<>> /\ chatState'.selectedRestaurant = NoPlace)]_vars

\* the running orchestrate call serves the first user turn: its log is the
\* welcome message followed by the user's message
firstTurn ==
    /\ orchPc = "context"
    /\ Len(orchArg.messages) = 2
    /\ orchArg.messages[1] = welcomeMessage
    /\ orchArg.messages[2].role = "user"

\* C9: on the first user turn of a conversation driven through useChat,
\* context resolution makes no external call and returns hasContext = false.
C9_FirstTurnSkipsContextCall ==
    firstTurn =>
        /\ ctxCalls = 0
        /\ resolved => ~ctxResult.hasContext

\* orchestrate settled through its catch block
caught == orchPc = "caught"

\* the positions of an orchestrate call; none of them is a rejected promise
OrchPositions ==
    {"idle", "context", "classify", "awaitSearch", "awaitGenerate", "returned", "caught"}

\* C13: orchestrate never throws to its caller: any failure not handled
\* inside a handler is converted into one uniform apologetic assistant
\* message that carries default follow-up quick actions.
C13_ApologyWithQuickActions ==
    /\ orchPc \in OrchPositions
    /\ caught => /\ orchReply.role = "assistant"
                 /\ orchReply.content = "orchestrate_error"
                 /\ orchReply.quickActions > 0

\* C13 (amended): orchestrate never throws to its caller: any failure not
\* handled inside a handler is converted into one uniform apologetic
\* assistant message, which carries no quick actions and no restaurants.
C13_ApologyWithoutQuickActions ==
    /\ orchPc \in OrchPositions
    /\ caught => /\ orchReply.role = "assistant"
                 /\ orchReply.content = "orchestrate_error"
                 /\ orchReply.quickActions = 0
                 /\ orchReply.restaurants = <<>>

C13_Witness ==
    /\ caught
    /\ orchIntent.type = "incomplete_request"
    /\ orchReply.content = "orchestrate_error"
    /\ Len(orchArg.messages) >= 2

\* C14: every assistant message produced for a turn has non-empty content,
\* for every intent and for every outcome of the external capabilities,
\* including a generation call that succeeds with empty text and a
\* capability that fails.
C14_NonEmptyContent ==
    /\ orchPc \in {"returned", "caught"} => orchReply.content # ""
    /\ \A k \in 1..Len(chatState.messages) :
          chatState.messages[k].role = "assistant" => chatState.messages[k].content # ""

\* the intent values with a branch of their own in orchestrate
HandledTypes ==
    {"incomplete_request", "context_switch", "restaurant_search",
     "restaurant_insights", "restaurant_comparison", "restaurant_pricing",
     "conversational", "follow_up"}

\* the order of the steps of one orchestrate call
OrchOrder ==
    { <<"idle", "context">>, <<"context", "classify">>,
      <<"classify", "awaitSearch">>, <<"classify", "awaitGenerate">>,
      <<"classify", "returned">>, <<"classify", "caught">>,
      <<"awaitSearch", "returned">>, <<"awaitGenerate", "returned">>,
      <<"returned", "idle">>, <<"caught", "idle">> }

\* C15: each turn is single-pass and ordered: the resolver call finishes
\* before the classifier call starts, the classifier call finishes before
\* any handler's external call starts, and exactly one handler branch runs
\* per turn; an intent value outside the handled set runs only the fallback
\* branch, with no external call.
C15_SinglePassOrdered ==
    [][/\ orchPc' # orchPc => <<orchPc, orchPc'>> \in OrchOrder
       /\ orchPc' = "classify" => ctxPc' = "idle"
       /\ ctxPc' \notin {"idle"} => orchPc' = "context"
       /\ (orchPc = "context" /\ orchPc' = "classify") => ctxPc = "done"
       /\ (orchPc = "classify" /\ orchPc' = "awaitSearch") =>
              orchIntent'.type = "restaurant_search"
       /\ (orchPc = "classify" /\ orchPc' = "awaitGenerate") =>
              orchIntent'.type \in {"restaurant_insights", "restaurant_comparison",
                                    "restaurant_pricing", "conversational", "follow_up"}
       /\ (orchPc = "classify" /\ orchPc' # orchPc /\ orchIntent'.type \notin HandledTypes) =>
              /\ orchPc' = "returned"
              /\ orchReply'.content = "not_sure_what_you_want"
      ]_vars

C15_Witness ==
    /\ orchPc = "returned"
    /\ orchIntent.type = "unknown"
    /\ orchReply.content = "not_sure_what_you_want"
    /\ ctxPc = "idle"

\* the promise of the oldest pending sendMessage call settles
turnSettles == orchPc \in {"returned", "caught"} /\ orchPc' = "idle"

\* C16: for every accepted sendMessage call, once the turn has completed
\* the message log equals the log before the call followed by exactly the
\* user message and then exactly one assistant message, both when
\* orchestrate returns and when it throws; no other message is added or
\* removed.
C16_TurnAppendsUserThenAssistant ==
    [][turnSettles =>
          LET before == Head(calls).logBefore
              after == chatState'.messages
          IN  /\ Len(after) = Len(before) + 2
              /\ SubSeq(after, 1, Len(before)) = before
              /\ after[Len(before) + 1].role = "user"
              /\ after[Len(before) + 2].role = "assistant"
      ]_vars

\* a user message is appended to the log
userMessageAdded ==
    /\ Len(chatState'.messages) = Len(chatState.messages) + 1
    /\ chatState'.messages[Len(chatState'.messages)].role = "user"

\* C17: turns of one conversation are serialized: while a turn is in flight
\* (isLoading true) a further sendMessage call, from the input box or from
\* a quick action, starts no second orchestrate call and adds no message,
\* also when the two calls are issued before the hook has re-rendered with
\* the updated state.
C17_TurnsSerialized ==
    [][chatState.isLoading => (Len(calls') <= Len(calls) /\ ~userMessageAdded)]_vars

\* C18: after any sequence of turns, restaurant selections and chat clears,
\* lastTop5 holds at most 5 entries.
C18_LastTop5AtMostFive ==
    /\ Len(chatState.lastTop5) <= TOP_N
    /\ Len(rendered.lastTop5) <= TOP_N
    /\ \A k \in 1..Len(calls) : Len(calls[k].arg.lastTop5) <= TOP_N

C18_Witness ==
    /\ Len(chatState.lastTop5) = 5
    /\ chatState.selectedRestaurant # NoPlace
    /\ sent = 2
    /\ cleared = 1

\* C19: after any sequence of turns and selections, selectedRestaurant,
\* when set, is either an entry of the current lastTop5 or was set by an
\* explicit selectRestaurant call of the user; in particular after a
\* single-result search set it automatically and a later search replaced
\* lastTop5.
C19_SelectedInLastTop5OrChosen ==
    chatState.selectedRestaurant # NoPlace =>
        \/ \E k \in 1..Len(chatState.lastTop5) :
              chatState.lastTop5[k] = chatState.selectedRestaurant
        \/ userSelected

\* the three clarifying questions of the incomplete_request branch
ClarifyingQuestions == {"ask_location", "ask_cuisine", "ask_cuisine_and_location"}

GracefulSearchReplies == {"search_failed", "search_empty"}

\* C21: when the awaited searchRestaurants settles, orchestrate returns
\* normally (never through its catch block); its reply never carries the
\* text of the error searchRestaurants threw; a reply without a restaurant
\* list is one of the two fixed graceful messages, with no quick actions,
\* and a graceful message never comes with a restaurant list.
C21_SearchFailureIsGraceful ==
    [][orchPc = "awaitSearch" /\ orchPc' # orchPc =>
          /\ orchPc' = "returned"
          /\ orchReply'.content \notin SearchErrors
          /\ orchReply'.content \in GracefulSearchReplies \cup {"search_results"}
          /\ (orchReply'.content \in GracefulSearchReplies
                <=> orchReply'.restaurants = <<>>)
          /\ (orchReply'.restaurants = <<>> => orchReply'.quickActions = 0)]_vars

\* a restaurant_search turn has returned the fixed message of a failed search
C21_Witness ==
    /\ orchPc = "returned"
    /\ orchIntent.type = "restaurant_search"
    /\ orchReply.content = "search_failed"
    /\ orchReply.restaurants = <<>>


(***************************************************************************)
(* Local lookup of named venues                                            *)
(***************************************************************************)
\* the venues an intent names
namedVenues(i) ==
    LET d == i.extractedData IN
    IF i.type = "restaurant_comparison" THEN {d.restaurant1, d.restaurant2} \ {""}
    ELSE {d.restaurantName} \ {""}

\* the places of the conversation the named venues match
locallyKnown(i, state) == {lookupRestaurant(state, n) : n \in namedVenues(i)} \ {NoPlace}

\* C22: in a restaurant_insights, restaurant_pricing or restaurant_comparison
\* turn the named venue is looked up in selectedRestaurant and lastTop5
\* before the external call: when a named venue matches a place of the
\* conversation, the restaurant the reply is about (its
\* metadata.selectedRestaurant, the outcome of the lookup) is such a place.
C22_NamedVenueLookedUpLocally ==
    [][/\ orchPc = "awaitGenerate" /\ orchPc' = "returned"
       /\ orchIntent.type \in {"restaurant_insights", "restaurant_pricing",
                               "restaurant_comparison"}
       /\ locallyKnown(orchIntent, orchArg) # {}
       => orchReply'.selectedRestaurant \in locallyKnown(orchIntent, orchArg)]_vars


(***************************************************************************)
(* follow_up                                                               *)
(***************************************************************************)
\* C23: a follow_up turn awaits generateGroundedContent only when the log
\* passed to orchestrate holds an assistant message; when it holds none the
\* turn returns at once, without any generation call, the message asking
\* what to elaborate on, with its two quick actions.
C23_FollowUpNeedsAssistantMessage ==
    [][orchPc = "classify" /\ orchPc' # orchPc /\ orchIntent'.type = "follow_up" =>
          IF hasAssistantMessage(orchArg.messages)
          THEN orchPc' = "awaitGenerate"
          ELSE /\ orchPc' = "returned"
               /\ orchReply'.content = "followup_no_previous_message"
               /\ orchReply'.quickActions = 2
               /\ orchReply'.restaurants = <<>>]_vars

\* a follow_up turn over a log without assistant message has returned
C23_Witness ==
    /\ orchPc = "returned"
    /\ orchIntent.type = "follow_up"
    /\ ~hasAssistantMessage(orchArg.messages)
    /\ orchReply.content = "followup_no_previous_message"


(***************************************************************************)
(* Joins of parallel calls                                                 *)
(***************************************************************************)
joined == joinFn # "none"

\* C24: a join of parallel calls keeps the result of every call that
\* succeeded, whatever happened to the others: comprehensiveRestaurantSearch
\* has each fulfilled value in its slot and [] in the slot of a failed call,
\* getMultipleRestaurantDetails returns exactly the fulfilled places, in
\* order, and the compareRestaurants tool still succeeds and keeps the place
\* one search found when the other search failed.
C24_PartialSuccess ==
    /\ joinFn = "comprehensiveRestaurantSearch" =>
          /\ joinOut.general = (IF joinIn[1].status = "fulfilled" THEN joinIn[1].value ELSE <<>>)
          /\ joinOut.reddit = (IF joinIn[2].status = "fulfilled" THEN joinIn[2].value ELSE <<>>)
          /\ joinOut.menu = (IF joinIn[3].status = "fulfilled" THEN joinIn[3].value ELSE <<>>)
          /\ joinOut.pricing = (IF joinIn[4].status = "fulfilled" THEN joinIn[4].value ELSE <<>>)
    /\ joinFn = "getMultipleRestaurantDetails" =>
          /\ Len(joinOut) = Cardinality({k \in 1..Len(joinIn) : joinIn[k].status = "fulfilled"})
          /\ \A k \in 1..Len(joinIn) :
                joinIn[k].status = "fulfilled" =>
                    \E j \in 1..Len(joinOut) : joinOut[j] = joinIn[k].value
          /\ \A i, j \in 1..Len(joinOut) : i < j => joinOut[i].id < joinOut[j].id
    /\ joinFn = "compareRestaurants" =>
          \A k \in 1..2 :
             (/\ joinIn[k].status = "fulfilled" /\ joinIn[k].value # NoPlace
              /\ joinIn[3 - k].status = "rejected")
             => /\ joinOut.success
                /\ joinIn[k].value \in {joinOut.restaurant1, joinOut.restaurant2}


(***************************************************************************)
(* compareRestaurants                                                      *)
(***************************************************************************)
compared == cmpText # NoComparison

\* C25: the place compareRestaurants names as ranking higher is the one of
\* the two with the higher score: its score is above the other's, for every
\* pair of places.
C25_WinnerHasHigherScore ==
    compared => scoreRestaurant(cmpText.winner) > scoreRestaurant(cmpText.loser)


(***************************************************************************)
(* resolveLocationCoordinates                                              *)
(***************************************************************************)
googleCalled == locGoogle # NoGoogleOutcome
llmCalled == locLLM # NoLLMOutcome

MAX_MESSAGES == 50

\* C27: chatState.messages never holds more than MAX_MESSAGES messages.
C27_LogAtMostMaxMessages == Len(chatState.messages) <= MAX_MESSAGES


(***************************************************************************)
(* What a turn leaves unchanged                                            *)
(***************************************************************************)
\* the message the settling turn appends is the reply of orchestrate (not
\* the error message of sendMessage's catch block)
replyDelivered ==
    chatState'.messages[Len(chatState'.messages)] = logEntry(orchReply)

\* the turn that settles searched nothing, found nothing or failed
turnWithoutResults ==
    \/ orchIntent.type \in {"restaurant_insights", "restaurant_pricing",
                            "restaurant_comparison", "follow_up", "conversational",
                            "incomplete_request"}
    \/ orchReply.content \in GracefulSearchReplies
    \/ orchPc = "caught"
    \/ ~replyDelivered

\* C28: when a turn settles, lastTop5 changes only if the reply carries a
\* non-empty restaurant list, and then becomes its first five entries;
\* selectedRestaurant changes only if that list has exactly one entry, and
\* then becomes that entry; a turn of an intent that does not search, an
\* empty or failed search and a turn that ends in an error leave both as
\* they were.
C28_TurnFrame ==
    [][turnSettles =>
          LET shown == orchReply.restaurants IN
          /\ chatState'.lastTop5 # chatState.lastTop5 =>
                /\ replyDelivered
                /\ Len(shown) > 0
                /\ chatState'.lastTop5 = [k \in 1..Min(5, Len(shown)) |-> shown[k]]
          /\ chatState'.selectedRestaurant # chatState.selectedRestaurant =>
                /\ Len(shown) = 1
                /\ chatState'.selectedRestaurant = shown[1]
          /\ turnWithoutResults =>
                /\ chatState'.lastTop5 = chatState.lastTop5
                /\ chatState'.selectedRestaurant = chatState.selectedRestaurant]_vars

\* a search turn set lastTop5 and the turn after it, which carried no
\* restaurants, has completed and left it in place
C28_Witness ==
    /\ orchPc = "idle" /\ calls = <<>>
    /\ Len(chatState.messages) = 5
    /\ Len(chatState.messages[3].restaurants) > 1
    /\ chatState.messages[5].restaurants = <<>>
    /\ chatState.lastTop5 = chatState.messages[3].restaurants
    /\ chatState.selectedRestaurant = NoPlace


(***************************************************************************)
(* isLoading                                                               *)
(***************************************************************************)
\* C29: an accepted sendMessage sets isLoading, and whenever isLoading is
\* set it is reset later, provided every orchestrate call settles: the
\* conversation is never blocked forever.
C29_LoadingEventuallyEnds ==
    /\ [][sent' # sent => chatState'.isLoading]_vars
    /\ (chatState.isLoading ~> ~chatState.isLoading)

\* a turn has been accepted and has settled: isLoading is reset and
\* nothing is pending
C29_Witness ==
    /\ sent > 0 /\ calls = <<>> /\ orchPc = "idle"
    /\ ~chatState.isLoading
    /\ Len(chatState.messages) >= 3


(***************************************************************************)
(* clearChat while a turn is pending                                       *)
(***************************************************************************)
\* the turn that settles was started in a conversation that clearChat has
\* replaced since
startedBeforeClear == Head(calls).conversationId # chatState.conversationId

\* C30: the reply of a turn started before clearChat reset the conversation
\* is not appended to the new conversation and does not set its lastTop5
\* or selectedRestaurant.
C30_ClearedConversationKeepsOutOldReplies ==
    [][turnSettles /\ startedBeforeClear =>
          /\ chatState'.messages = chatState.messages
          /\ chatState'.lastTop5 = chatState.lastTop5
          /\ chatState'.selectedRestaurant = chatState.selectedRestaurant]_vars

=============================================================================
